---- MODULE Spec2Model ----
(***************************************************************************)
(* The case store, the case view's upload handlers and the extract route   *)
(* of the CAA case-management application, as one state machine.           *)
(*                                                                         *)
(* JavaScript values are modelled as follows: a string is a TLA+ string    *)
(* when it is only compared ("pan", a case id) and a sequence of           *)
(* one-character strings when the code edits it (pan_number,               *)
(* aadhaar_number); `undefined` is the string "undefined" for a string     *)
(* valued field and a record with present = FALSE for an object valued     *)
(* field; a JSON number is a fraction num/den, so that the non-integer     *)
(* numbers a request body may carry are inputs too.                        *)
(***************************************************************************)
EXTENDS Integers, Sequences, FiniteSets, TLC

VARIABLES
    cases,      \* the store: Map<string, Case> (a function on the ids present)
    calls,      \* the extract requests: position in the route and its locals
    caseId,     \* CaseView's prop: the case the page is open on
    caseData,   \* CaseView's SWR snapshot of that case
    uploads,    \* files selected so far (Date.now() for the next doc id)
    norm,       \* an inference answer and what the converters made of it
    manual,     \* ManualFieldsForm's state: the copies its first edits took
    last        \* the last step taken: the request and the response it got

vars == <<cases, calls, caseId, caseData, uploads, norm, manual, last>>

---------------------------------------------------------------------------
(* Bounds of the model *)

\* files the user selects in one behaviour
MaxUploads == 2
\* files the user selects while requests of every shape arrive
MaxApiUploads == 1
\* extract requests in one behaviour of the route alone
MaxCalls == 2
\* requests that await an external call while the page is in use
MaxPageCalls == 1
\* cases the create route stores in one behaviour
MaxCreates == 1
\* characters of the short answers the converters are run on
MaxRawLen == 2
\* files the user selects during the whole life of a case
MaxLifeUploads == 1
MaxOpsUploads == 1

---------------------------------------------------------------------------
(* Types: src/unnamed/part_003 *)

CaseStatus == {"draft", "extracting", "reviewing", "complete"}

DocType == {"pan", "aadhaar", "photo", "signature"}

CoreType == {"pan", "aadhaar"}

DocStatus == {"pending", "processing", "done", "error"}

DirectorIndex == {0, 1}

\* panData?: PanData when the field is undefined
NoPanData == [present |-> FALSE, pan_number |-> <<>>]

\* aadhaarData?: AadhaarData when the field is undefined
NoAadhaarData == [present |-> FALSE, aadhaar_number |-> <<>>]

\* extractedData?: Record<string, string> when the field is undefined
NoRawData == [present |-> FALSE, pan_number |-> <<>>, aadhaar_number |-> <<>>]

createEmptyDirector ==
    [ documents       |-> <<>>,
      validated       |-> FALSE,
      panData         |-> NoPanData,
      aadhaarData     |-> NoAadhaarData,
      nationality     |-> "Indian",
      residentOfIndia |-> "Yes" ]

\* companyInfo of a new case: the fields the manual form fills
EmptyCompanyInfo ==
    [ electricityBillUploaded |-> FALSE, nocUploaded |-> FALSE, officeEmail |-> "" ]

\* professionalInfo of a new case
EmptyProfessionalInfo == [ name |-> "", membershipNo |-> "", address |-> "" ]

createEmptyCase(name) ==
    [ name             |-> name,
      status           |-> "draft",
      directors        |-> [i \in DirectorIndex |-> createEmptyDirector],
      companyInfo      |-> EmptyCompanyInfo,
      professionalInfo |-> EmptyProfessionalInfo,
      inferenceMode    |-> "modal" ]

---------------------------------------------------------------------------
(* Strings the code edits: sequences of one-character strings *)

Whitespace == {" "}

DigitChar == {"0", "1", "2", "3", "4", "5", "6", "7", "8", "9"}

\* String.prototype.toUpperCase, one character
UpperChar(c) ==
    CASE c = "a" -> "A" [] c = "b" -> "B" [] c = "j" -> "J" [] c = "k" -> "K"
      [] c = "p" -> "P" [] c = "q" -> "Q" [] OTHER -> c

toUpperCase(s) == [i \in 1..Len(s) |-> UpperChar(s[i])]

IsNotSpace(c) == c \notin Whitespace

IsDigit(c) == c \in DigitChar

\* s.replace(/\s+/g, "")
StripWhitespace(s) == SelectSeq(s, IsNotSpace)

\* s.replace(/\D/g, "")
OnlyDigits(s) == SelectSeq(s, IsDigit)

RECURSIVE TrimStart(_)
TrimStart(s) ==
    IF s # <<>> /\ Head(s) \in Whitespace THEN TrimStart(Tail(s)) ELSE s

RECURSIVE TrimEnd(_)
TrimEnd(s) ==
    IF s # <<>> /\ s[Len(s)] \in Whitespace
    THEN TrimEnd(SubSeq(s, 1, Len(s) - 1))
    ELSE s

\* String.prototype.trim
trim(s) == TrimEnd(TrimStart(s))

toPanData(data) ==
    [ present    |-> TRUE,
      pan_number |-> toUpperCase(StripWhitespace(data.pan_number)) ]

toAadhaarData(data) ==
    LET digits == OnlyDigits(data.aadhaar_number)
        formattedAadhaar ==
            IF Len(digits) = 12
            THEN SubSeq(digits, 1, 4) \o <<" ">> \o SubSeq(digits, 5, 8)
                   \o <<" ">> \o SubSeq(digits, 9, 12)
            ELSE trim(data.aadhaar_number)
    IN  [ present |-> TRUE, aadhaar_number |-> formattedAadhaar ]

---------------------------------------------------------------------------
(* The inference endpoint: what it answers for each content payload *)

\* the non-empty base64 payloads of the files the user has at hand
Payloads == {"img1", "img2"}

\* the JSON body of a successful answer of the endpoint
ModalResponse(content) ==
    IF content = "img1"
    THEN [ present        |-> TRUE,
           pan_number     |-> <<"b", "q", "j", " ", "p", "k", "6", "3", "4", "7", "q">>,
           aadhaar_number |-> <<"8", "7", "6", "5", "4", "3", "2", "1", "0", "9", "8", "7">> ]
    ELSE [ present        |-> TRUE,
           pan_number     |-> <<"A", "B", "1">>,
           aadhaar_number |-> <<" ", "1", "2", "3", "4">> ]

\* no answer has been converted
NoNorm ==
    [ passes |-> 0, raw |-> NoRawData,
      panData |-> NoPanData, aadhaarData |-> NoAadhaarData,
      panAgain |-> NoPanData, aadhaarAgain |-> NoAadhaarData ]

\* the converters run on an answer of the inference call (lines 250-254)
Normalise ==
    /\ norm.passes = 0
    /\ norm.raw.present
    /\ norm' = [ norm EXCEPT !.passes = 1,
                             !.panData = toPanData(norm.raw),
                             !.aadhaarData = toAadhaarData(norm.raw) ]
    /\ UNCHANGED <<cases, calls, caseId, caseData, uploads, manual, last>>

\* the converters run on an answer that carries the values they produced
Renormalise ==
    /\ norm.passes = 1
    /\ norm' = [ norm EXCEPT
                   !.passes = 2,
                   !.panAgain = toPanData(
                       [ norm.raw EXCEPT !.pan_number = norm.panData.pan_number ]),
                   !.aadhaarAgain = toAadhaarData(
                       [ norm.raw EXCEPT
                           !.aadhaar_number = norm.aadhaarData.aadhaar_number ]) ]
    /\ UNCHANGED <<cases, calls, caseId, caseData, uploads, manual, last>>

---------------------------------------------------------------------------
(* The store: src/unnamed/part_004 *)

\* a DirectorDocument of the seed data: no contentBase64, no extractedData
SeedDocument(id, type) ==
    [ id            |-> id,
      type          |-> type,
      contentBase64 |-> "undefined",
      status        |-> "done",
      extractedData |-> NoRawData ]

demoCase ==
    [ createEmptyCase(<<"A", "B", "C", " ", "P", "v", "t", " ", "L", "t", "d">>) EXCEPT
        !.status = "reviewing",
        !.directors[0].panData =
            [ present    |-> TRUE,
              pan_number |-> <<"B", "Q", "J", "P", "K", "6", "3", "4", "7", "Q">> ],
        !.directors[0].aadhaarData =
            [ present        |-> TRUE,
              aadhaar_number |-> <<"8", "7", "6", "5", " ", "4", "3", "2", "1", " ",
                                   "0", "9", "8", "7">> ],
        !.directors[0].documents =
            << SeedDocument(1, "pan"), SeedDocument(2, "aadhaar") >> ]

demoCase2 ==
    [ createEmptyCase(<<"X", "Y", "Z", " ", "T", "e", "c", "h", "n", "o", "l", "o", "g",
                        "i", "e", "s", " ", "P", "v", "t", " ", "L", "t", "d">>)
        EXCEPT !.status = "draft" ]

demoCase3 ==
    [ createEmptyCase(<<"G", "l", "o", "b", "a", "l", "T", "e", "c", "h", " ", "S", "o",
                        "l", "u", "t", "i", "o", "n", "s", " ", "P", "v", "t", " ",
                        "L", "t", "d">>) EXCEPT
        !.status = "complete",
        !.directors[0].validated = TRUE,
        !.directors[1].validated = TRUE,
        !.directors[0].panData =
            [ present    |-> TRUE,
              pan_number |-> <<"A", "B", "C", "D", "E", "1", "2", "3", "4", "F">> ],
        !.directors[0].aadhaarData =
            [ present        |-> TRUE,
              aadhaar_number |-> <<"1", "2", "3", "4", " ", "5", "6", "7", "8", " ",
                                   "9", "0", "1", "2">> ] ]

\* the ids crypto.randomUUID() gave the three seeded cases
SeedIds == {"demo1", "demo2", "demo3"}

\* the module-level Map after the seeding statements
SeedStore ==
    [ id \in SeedIds |->
        CASE id = "demo1" -> demoCase
          [] id = "demo2" -> demoCase2
          [] id = "demo3" -> demoCase3 ]

\* cases.get(id) is defined
Has(store, id) == id \in DOMAIN store

\* { ...existing, ...updates }
Spread(existing, updates) ==
    [ f \in DOMAIN existing \cup DOMAIN updates |->
        IF f \in DOMAIN updates THEN updates[f] ELSE existing[f] ]

\* an update that stores a record of its own when it finds none
updateCaseUpsert(store, id, updates) ==
    [ k \in DOMAIN store \cup {id} |->
        IF k # id THEN store[k]
        ELSE IF Has(store, id) THEN Spread(store[id], updates)
        ELSE Spread(createEmptyCase(<<>>), updates) ]

\* an update that merges the updates into a fresh record
updateCaseFresh(store, id, updates) ==
    IF ~Has(store, id)
    THEN store
    ELSE [ store EXCEPT ![id] = Spread(createEmptyCase(@.name), updates) ]

\* the store after updateCase(id, updates)
updateCase(store, id, updates) ==
    IF ~Has(store, id)
    THEN store
    ELSE [ store EXCEPT ![id] = Spread(@, updates) ]

\* the store after deleteCase(id)
deleteCase(store, id) == [ k \in DOMAIN store \ {id} |-> store[k] ]

---------------------------------------------------------------------------
(* Requests and responses *)

\* a JSON number num/den; den = 0 stands for a field the body does not carry
Num(n) == [num |-> n, den |-> 1]

Half == [num |-> 1, den |-> 2]

UndefinedNumber == [num |-> 0, den |-> 0]

\* x < k and x > k on JSON numbers
NumLess(x, k) == x.num < k * x.den

NumGreater(x, k) == x.num > k * x.den

\* the number is a property key of a two-element array
IsArrayIndex(x) == x.den = 1 /\ x.num \in DirectorIndex

\* !s for a string or undefined
Falsy(s) == s \in {"undefined", ""}

Body(id, idx, type, image) ==
    [caseId |-> id, directorIndex |-> idx, documentType |-> type, imageBase64 |-> image]

NoBody == Body("undefined", UndefinedNumber, "undefined", "undefined")

Response(http, error) == [http |-> http, error |-> error]

Step(op, proc, body, response) ==
    [ op |-> op, proc |-> proc, body |-> body,
      http |-> response.http, error |-> response.error ]

---------------------------------------------------------------------------
(* The extract route: src/unnamed/part_006 *)

\* documents.findIndex((doc) => doc.type === type), counted from 1; 0 for -1
FindIndex(documents, type) ==
    IF \E i \in 1..Len(documents) : documents[i].type = type
    THEN CHOOSE i \in 1..Len(documents) :
            /\ documents[i].type = type
            /\ \A j \in 1..(i - 1) : documents[j].type # type
    ELSE 0

getTargetDocRef(directors, directorIndex, documentType) ==
    FindIndex(directors[directorIndex].documents, documentType)

totalRequiredCoreDocs == 4

\* progress counted against the uploaded documents only
getCoreDocProgressUploaded(directors) ==
    LET found == { k \in DirectorIndex \X CoreType :
                     FindIndex(directors[k[1]].documents, k[2]) # 0 }
        done  == { k \in found :
                     directors[k[1]].documents[
                        FindIndex(directors[k[1]].documents, k[2])].status = "done" }
        uploadedCount == Cardinality(found)
        doneCount     == Cardinality(done)
    IN  [ anyStarted |-> uploadedCount > 0,
          allDone    |-> uploadedCount > 0 /\ doneCount = uploadedCount ]

getCoreDocProgress(directors) ==
    LET found == { k \in DirectorIndex \X CoreType :
                     FindIndex(directors[k[1]].documents, k[2]) # 0 }
        done  == { k \in found :
                     directors[k[1]].documents[
                        FindIndex(directors[k[1]].documents, k[2])].status = "done" }
        uploadedCount == Cardinality(found)
        doneCount     == Cardinality(done)
    IN  [ anyStarted |-> uploadedCount > 0,
          allDone    |-> uploadedCount = totalRequiredCoreDocs
                           /\ doneCount = totalRequiredCoreDocs ]

\* a status that forgets the documents still to be extracted
ProgressStatusNoExtracting(progress) ==
    IF progress.allDone THEN "reviewing" ELSE "draft"

\* allDone ? "reviewing" : anyStarted ? "extracting" : "draft"
ProgressStatus(progress) ==
    IF progress.allDone THEN "reviewing"
    ELSE IF progress.anyStarted THEN "extracting"
    ELSE "draft"

\* a ?? b on strings
Coalesce(a, b) == IF a = "undefined" THEN b ELSE a

\* a mark-processing write that keeps the extracted data and the validated flag
ProcessingDirectorsKeepData(directors, directorIndex, documentType, docIndex, contentBase64) ==
    [ directors EXCEPT
        ![directorIndex].documents[docIndex].contentBase64 = contentBase64,
        ![directorIndex].documents[docIndex].status = "processing" ]

\* the directors array of the mark-processing write
ProcessingDirectors(directors, directorIndex, documentType, docIndex, contentBase64) ==
    [ directors EXCEPT
        ![directorIndex].documents[docIndex].contentBase64 = contentBase64,
        ![directorIndex].documents[docIndex].status = "processing",
        ![directorIndex].validated = FALSE,
        ![directorIndex].panData =
            IF documentType = "pan" THEN NoPanData ELSE @,
        ![directorIndex].aadhaarData =
            IF documentType = "pan" THEN @ ELSE NoAadhaarData ]

\* a merge that rebuilds the director from the answer alone, dropping the
\* data of the other core type
DoneDirectorsResetSibling(directors, directorIndex, documentType, docIndex, contentBase64, rawData) ==
    [ directors EXCEPT
        ![directorIndex].documents[docIndex].contentBase64 =
            Coalesce(@, contentBase64),
        ![directorIndex].documents[docIndex].status = "done",
        ![directorIndex].documents[docIndex].extractedData = rawData,
        ![directorIndex].panData =
            IF documentType = "pan" THEN toPanData(rawData) ELSE NoPanData,
        ![directorIndex].aadhaarData =
            IF documentType = "pan" THEN NoAadhaarData ELSE toAadhaarData(rawData),
        ![directorIndex].validated = FALSE ]

\* a merge that clears the validated flag of every director
DoneDirectorsInvalidateAll(directors, directorIndex, documentType, docIndex, contentBase64, rawData) ==
    [ i \in DOMAIN directors |->
        [ [ directors EXCEPT
              ![directorIndex].documents[docIndex].contentBase64 =
                  Coalesce(@, contentBase64),
              ![directorIndex].documents[docIndex].status = "done",
              ![directorIndex].documents[docIndex].extractedData = rawData,
              ![directorIndex].panData =
                  IF documentType = "pan" THEN toPanData(rawData) ELSE @,
              ![directorIndex].aadhaarData =
                  IF documentType = "pan" THEN @ ELSE toAadhaarData(rawData) ][i]
          EXCEPT !.validated = FALSE ] ]

\* the directors array of the merge write after a successful inference call
DoneDirectors(directors, directorIndex, documentType, docIndex, contentBase64, rawData) ==
    [ directors EXCEPT
        ![directorIndex].documents[docIndex].contentBase64 =
            Coalesce(@, contentBase64),
        ![directorIndex].documents[docIndex].status = "done",
        ![directorIndex].documents[docIndex].extractedData = rawData,
        ![directorIndex].panData =
            IF documentType = "pan" THEN toPanData(rawData) ELSE @,
        ![directorIndex].aadhaarData =
            IF documentType = "pan" THEN @ ELSE toAadhaarData(rawData),
        ![directorIndex].validated = FALSE ]

\* a catch branch that marks every document of the director
ErrorDirectorsAll(directors, directorIndex, docIndex) ==
    [ directors EXCEPT ![directorIndex].documents =
        [ i \in DOMAIN @ |-> [ @[i] EXCEPT !.status = "error" ] ] ]

\* the directors array of the write in the catch branch
ErrorDirectors(directors, directorIndex, docIndex) ==
    [ directors EXCEPT ![directorIndex].documents[docIndex].status = "error" ]

\* a terminal write that keeps the status of the mark-processing write
TerminalUpdatesExtracting(mergedDirectors) ==
    [ directors     |-> mergedDirectors,
      inferenceMode |-> "modal",
      status        |-> "extracting" ]

\* the updates object of a terminal write
TerminalUpdates(mergedDirectors) ==
    [ directors     |-> mergedDirectors,
      inferenceMode |-> "modal",
      status        |-> ProgressStatus(getCoreDocProgress(mergedDirectors)) ]

\* a route that refuses a document whose last extraction failed
ExtractCheckRefuseError(store, body) ==
    IF Falsy(body.caseId) \/ body.directorIndex = UndefinedNumber
         \/ Falsy(body.documentType)
    THEN Response(400, "Missing required fields: caseId, directorIndex, documentType")
    ELSE IF NumLess(body.directorIndex, 0) \/ NumGreater(body.directorIndex, 1)
    THEN Response(400, "directorIndex must be 0 or 1")
    ELSE IF body.documentType # "pan" /\ body.documentType # "aadhaar"
    THEN Response(400, "documentType must be pan or aadhaar")
    ELSE IF ~Has(store, body.caseId)
    THEN Response(404, "Case not found")
    ELSE IF ~IsArrayIndex(body.directorIndex)
    THEN Response(500, "TypeError: directors[directorIndex] is undefined")
    ELSE LET directors == store[body.caseId].directors
             d         == body.directorIndex.num
             docIndex  == getTargetDocRef(directors, d, body.documentType)
         IN  IF docIndex = 0
             THEN Response(400, "No document uploaded for director")
             ELSE IF directors[d].documents[docIndex].status = "error"
             THEN Response(400, "Document content is missing")
             ELSE IF Falsy(Coalesce(body.imageBase64,
                                    directors[d].documents[docIndex].contentBase64))
             THEN Response(400, "Document content is missing")
             ELSE Response(0, "")

\* the response of lines 160-197 when the route returns there; http = 0 when
\* it goes on to the mark-processing write
ExtractCheck(store, body) ==
    IF Falsy(body.caseId) \/ body.directorIndex = UndefinedNumber
         \/ Falsy(body.documentType)
    THEN Response(400, "Missing required fields: caseId, directorIndex, documentType")
    ELSE IF NumLess(body.directorIndex, 0) \/ NumGreater(body.directorIndex, 1)
    THEN Response(400, "directorIndex must be 0 or 1")
    ELSE IF body.documentType # "pan" /\ body.documentType # "aadhaar"
    THEN Response(400, "documentType must be pan or aadhaar")
    ELSE IF ~Has(store, body.caseId)
    THEN Response(404, "Case not found")
    ELSE IF ~IsArrayIndex(body.directorIndex)
    THEN Response(500, "TypeError: directors[directorIndex] is undefined")
    ELSE LET directors == store[body.caseId].directors
             d         == body.directorIndex.num
             docIndex  == getTargetDocRef(directors, d, body.documentType)
         IN  IF docIndex = 0
             THEN Response(400, "No document uploaded for director")
             ELSE IF Falsy(Coalesce(body.imageBase64,
                                    directors[d].documents[docIndex].contentBase64))
             THEN Response(400, "Document content is missing")
             ELSE Response(0, "")

\* a request handler that has not started
IdleCall ==
    [ pc |-> "idle", route |-> "none", body |-> NoBody, directorIndex |-> 0,
      contentBase64 |-> "undefined", targetId |-> 0, http |-> 0, error |-> "" ]

Procs == DOMAIN calls

\* a server that takes a request only when every earlier one was answered
NextProcSerial(p) == calls[p].pc = "idle" /\ \A q \in 1..(p - 1) : calls[q].pc = "done"

\* handlers are numbered in the order their requests arrive
NextProc(p) == calls[p].pc = "idle" /\ \A q \in 1..(p - 1) : calls[q].pc # "idle"

\* a route that marks the case before it looks for the document
ExtractRequestEager(p, body) ==
    /\ NextProc(p)
    /\ LET r == ExtractCheck(cases, body)
       IN  IF r.http # 0
           THEN /\ last' = Step("extract", 0, body, r)
                /\ cases' =
                      IF r.error = "No document uploaded for director"
                      THEN updateCase(cases, body.caseId,
                             [ directors |->
                                 [ cases[body.caseId].directors EXCEPT
                                     ![body.directorIndex.num].validated = FALSE ],
                               status    |-> "extracting" ])
                      ELSE cases
                /\ UNCHANGED calls
           ELSE LET directors == cases[body.caseId].directors
                    d         == body.directorIndex.num
                    docIndex  == getTargetDocRef(directors, d, body.documentType)
                    doc       == directors[d].documents[docIndex]
                    contentBase64 == Coalesce(body.imageBase64, doc.contentBase64)
                IN  /\ cases' = updateCase(cases, body.caseId,
                          [ directors     |-> ProcessingDirectors(directors, d,
                                                body.documentType, docIndex, contentBase64),
                            inferenceMode |-> "modal",
                            status        |-> "extracting" ])
                    /\ calls' = [calls EXCEPT ![p] =
                          [ pc |-> "await", route |-> "extract", body |-> body,
                            directorIndex |-> d, contentBase64 |-> contentBase64,
                            targetId |-> doc.id, http |-> 0, error |-> "" ]]
                    /\ last' = Step("extract", p, body, r)
    /\ UNCHANGED <<caseId, caseData, uploads, norm, manual>>

\* POST /api/extract up to the await of the inference call (lines 160-218)
ExtractRequest(p, body) ==
    /\ NextProc(p)
    /\ LET r == ExtractCheck(cases, body)
       IN  IF r.http # 0
           THEN /\ last' = Step("extract", 0, body, r)
                /\ UNCHANGED <<cases, calls>>
           ELSE LET directors == cases[body.caseId].directors
                    d         == body.directorIndex.num
                    docIndex  == getTargetDocRef(directors, d, body.documentType)
                    doc       == directors[d].documents[docIndex]
                    contentBase64 == Coalesce(body.imageBase64, doc.contentBase64)
                IN  /\ cases' = updateCase(cases, body.caseId,
                          [ directors     |-> ProcessingDirectors(directors, d,
                                                body.documentType, docIndex, contentBase64),
                            inferenceMode |-> "modal",
                            status        |-> "extracting" ])
                    /\ calls' = [calls EXCEPT ![p] =
                          [ pc |-> "await", route |-> "extract", body |-> body,
                            directorIndex |-> d, contentBase64 |-> contentBase64,
                            targetId |-> doc.id, http |-> 0, error |-> "" ]]
                    /\ last' = Step("extract", p, body, r)
    /\ UNCHANGED <<caseId, caseData, uploads, norm, manual>>

\* the response of the try block after the inference call returned (225-272)
MergeCheck(store, call) ==
    IF ~Has(store, call.body.caseId)
    THEN Response(404, "Case not found")
    ELSE IF getTargetDocRef(store[call.body.caseId].directors,
                            call.directorIndex, call.body.documentType) = 0
    THEN Response(409, "Document was removed while extraction was in progress.")
    ELSE Response(200, "")

\* a merge that puts a slot back when it finds none of the type
MergeDoneUpsert(store, call, rawData) ==
    IF ~Has(store, call.body.caseId)
    THEN store
    ELSE LET latest    == store[call.body.caseId].directors
             directors ==
                 IF getTargetDocRef(latest, call.directorIndex,
                                    call.body.documentType) # 0
                 THEN latest
                 ELSE [ latest EXCEPT ![call.directorIndex].documents =
                          Append(@, [ id            |-> call.targetId,
                                      type          |-> call.body.documentType,
                                      contentBase64 |-> call.contentBase64,
                                      status        |-> "processing",
                                      extractedData |-> NoRawData ]) ]
             docIndex  == getTargetDocRef(directors, call.directorIndex,
                                          call.body.documentType)
         IN  updateCase(store, call.body.caseId,
                TerminalUpdates(DoneDirectors(directors, call.directorIndex,
                    call.body.documentType, docIndex, call.contentBase64, rawData)))

\* the store after the try block ran with the answer rawData
MergeDone(store, call, rawData) ==
    IF MergeCheck(store, call).http # 200
    THEN store
    ELSE LET directors == store[call.body.caseId].directors
             docIndex  == getTargetDocRef(directors, call.directorIndex,
                                          call.body.documentType)
         IN  updateCase(store, call.body.caseId,
                TerminalUpdates(DoneDirectors(directors, call.directorIndex,
                    call.body.documentType, docIndex, call.contentBase64, rawData)))

\* a catch branch that stores a record of its own when it finds none
MergeErrorRecreate(store, call) ==
    IF ~Has(store, call.body.caseId)
    THEN [ k \in DOMAIN store \cup {call.body.caseId} |->
             IF k = call.body.caseId THEN createEmptyCase(<<>>) ELSE store[k] ]
    ELSE IF MergeCheck(store, call).http # 200
    THEN store
    ELSE LET directors == store[call.body.caseId].directors
             docIndex  == getTargetDocRef(directors, call.directorIndex,
                                          call.body.documentType)
         IN  updateCase(store, call.body.caseId,
                TerminalUpdates(ErrorDirectors(directors, call.directorIndex, docIndex)))

\* the store after the catch block ran (273-292)
MergeError(store, call) ==
    IF MergeCheck(store, call).http # 200
    THEN store
    ELSE LET directors == store[call.body.caseId].directors
             docIndex  == getTargetDocRef(directors, call.directorIndex,
                                          call.body.documentType)
         IN  updateCase(store, call.body.caseId,
                TerminalUpdates(ErrorDirectors(directors, call.directorIndex, docIndex)))

\* the inference call returns an answer: lines 225-272
ExtractOk(p) ==
    /\ calls[p].pc = "await" /\ calls[p].route = "extract"
    /\ LET r == MergeCheck(cases, calls[p])
       IN  /\ cases' = MergeDone(cases, calls[p], ModalResponse(calls[p].contentBase64))
           /\ calls' = [calls EXCEPT ![p].pc = "done", ![p].http = r.http,
                                     ![p].error = r.error]
           /\ last' = Step("extract:ok", p, calls[p].body, r)
    /\ UNCHANGED <<caseId, caseData, uploads, norm, manual>>

\* the inference call throws: lines 273-296
ExtractFail(p) ==
    /\ calls[p].pc = "await" /\ calls[p].route = "extract"
    /\ LET r == Response(502, "Unable to reach Modal endpoint")
       IN  /\ cases' = MergeError(cases, calls[p])
           /\ calls' = [calls EXCEPT ![p].pc = "done", ![p].http = r.http,
                                     ![p].error = r.error]
           /\ last' = Step("extract:failed", p, calls[p].body, r)
    /\ UNCHANGED <<caseId, caseData, uploads, norm, manual>>

---------------------------------------------------------------------------
(* The case routes: src/app/api/cases/[id]/route.ts *)

\* the response of GET, PATCH and DELETE /api/cases/[id]
CaseResponse(store, id) ==
    IF Has(store, id) THEN Response(200, "") ELSE Response(404, "Case not found")

\* an id no case was ever stored under
UnknownId == "no-such-case"

\* the ids the requests of the model are addressed to
RequestIds == {caseId, UnknownId}

\* GET /api/cases/[id]
Get(id) ==
    /\ last' = Step("get", 0, Body(id, UndefinedNumber, "undefined", "undefined"),
                    CaseResponse(cases, id))
    /\ UNCHANGED <<cases, calls, caseId, caseData, uploads, norm, manual>>

\* DELETE /api/cases/[id]
Delete(id) ==
    /\ cases' = deleteCase(cases, id)
    /\ last' = Step("delete", 0, Body(id, UndefinedNumber, "undefined", "undefined"),
                    CaseResponse(cases, id))
    /\ UNCHANGED <<calls, caseId, caseData, uploads, norm, manual>>

---------------------------------------------------------------------------
(* The export route: src/app/api/cases/route.ts, lines 111-169 *)

\* the response of lines 112-122 when the route returns there
ExportCheck(store, id) ==
    IF Falsy(id) THEN Response(400, "caseId is required")
    ELSE IF ~Has(store, id) THEN Response(404, "Case not found")
    ELSE Response(0, "")

\* POST /api/export up to the await of the spreadsheet call
ExportRequest(p, id) ==
    /\ NextProc(p)
    /\ LET r    == ExportCheck(cases, id)
           body == Body(id, UndefinedNumber, "undefined", "undefined")
       IN  /\ last' = Step("export", IF r.http = 0 THEN p ELSE 0, body, r)
           /\ calls' = IF r.http # 0 THEN calls
                       ELSE [calls EXCEPT ![p] =
                              [IdleCall EXCEPT !.pc = "await", !.route = "export",
                                               !.body = body]]
    /\ UNCHANGED <<cases, caseId, caseData, uploads, norm, manual>>

\* the spreadsheet call answers 2xx: lines 151-163
ExportOk(p) ==
    /\ calls[p].pc = "await" /\ calls[p].route = "export"
    /\ cases' = updateCase(cases, calls[p].body.caseId, [status |-> "complete"])
    /\ calls' = [calls EXCEPT ![p].pc = "done", ![p].http = 200]
    /\ last' = Step("export:ok", p, calls[p].body, Response(200, ""))
    /\ UNCHANGED <<caseId, caseData, uploads, norm, manual>>

\* an export that completes the case before it knows the answer
ExportFailOptimistic(p, http) ==
    /\ calls[p].pc = "await" /\ calls[p].route = "export"
    /\ cases' = updateCase(cases, calls[p].body.caseId, [status |-> "complete"])
    /\ calls' = [calls EXCEPT ![p].pc = "done", ![p].http = http,
                              ![p].error = "Excel export backend failed"]
    /\ last' = Step("export:failed", p, calls[p].body,
                    Response(http, "Excel export backend failed"))
    /\ UNCHANGED <<caseId, caseData, uploads, norm, manual>>

\* the spreadsheet call answers non-2xx (502) or fetch throws (500)
ExportFail(p, http) ==
    /\ calls[p].pc = "await" /\ calls[p].route = "export"
    /\ calls' = [calls EXCEPT ![p].pc = "done", ![p].http = http,
                              ![p].error = "Excel export backend failed"]
    /\ last' = Step("export:failed", p, calls[p].body,
                    Response(http, "Excel export backend failed"))
    /\ UNCHANGED <<cases, caseId, caseData, uploads, norm, manual>>

---------------------------------------------------------------------------
(* The case view: src/unnamed/part_002, lines 487-854 *)

\* what useSWR holds once the fetcher resolved: the case, or the error body
\* of a 404, which has no directors
Snapshot(store, id) ==
    IF Has(store, id)
    THEN [ loaded |-> TRUE, directors |-> store[id].directors,
           companyInfo      |-> store[id].companyInfo,
           professionalInfo |-> store[id].professionalInfo ]
    ELSE [ loaded |-> FALSE, directors |-> createEmptyCase(<<>>).directors,
           companyInfo      |-> EmptyCompanyInfo,
           professionalInfo |-> EmptyProfessionalInfo ]

\* mutate(): SWR fetches the case again.  The handlers call it after their
\* PATCH (lines 654, 718) and after an extract answer (line 574); the GET it
\* sends is answered later, and until then the callbacks keep the snapshot of
\* the last render, so the refresh is a step of its own.
Mutate ==
    /\ caseData.loaded
    /\ caseData # Snapshot(cases, caseId)
    /\ caseData' = Snapshot(cases, caseId)
    /\ last' = Step("get", 0, Body(caseId, UndefinedNumber, "undefined", "undefined"),
                    CaseResponse(cases, caseId))
    /\ UNCHANGED <<cases, calls, caseId, uploads, norm, manual>>

\* `doc-${Date.now()}`: later than the ids of the seed documents
DateNow(n) == 2 + n + 1

\* an attach that always adds a slot
AttachDirectorsAppend(directors, directorIndex, typedDoc, newDoc) ==
    [ directors EXCEPT
        ![directorIndex].documents = Append(@, newDoc),
        ![directorIndex].panData = IF typedDoc = "pan" THEN NoPanData ELSE @,
        ![directorIndex].aadhaarData =
            IF typedDoc = "aadhaar" THEN NoAadhaarData ELSE @,
        ![directorIndex].validated =
            IF typedDoc \in {"pan", "aadhaar"} THEN FALSE ELSE @ ]

\* an attach that leaves the review state of the director alone
AttachDirectorsKeepReview(directors, directorIndex, typedDoc, newDoc) ==
    LET existingIdx == FindIndex(directors[directorIndex].documents, typedDoc)
        documents   ==
            IF existingIdx > 0
            THEN [directors[directorIndex].documents EXCEPT ![existingIdx] = newDoc]
            ELSE Append(directors[directorIndex].documents, newDoc)
    IN  [ directors EXCEPT ![directorIndex].documents = documents ]

\* lines 598-635: the directors array handleFileSelect sends
AttachDirectors(directors, directorIndex, typedDoc, newDoc) ==
    LET existingIdx == FindIndex(directors[directorIndex].documents, typedDoc)
        documents   ==
            IF existingIdx > 0
            THEN [directors[directorIndex].documents EXCEPT ![existingIdx] = newDoc]
            ELSE Append(directors[directorIndex].documents, newDoc)
    IN  [ directors EXCEPT
            ![directorIndex].documents = documents,
            ![directorIndex].panData = IF typedDoc = "pan" THEN NoPanData ELSE @,
            ![directorIndex].aadhaarData =
                IF typedDoc = "aadhaar" THEN NoAadhaarData ELSE @,
            ![directorIndex].validated =
                IF typedDoc \in {"pan", "aadhaar"} THEN FALSE ELSE @ ]

\* lines 693-715: the directors array handleRemove sends
RemoveDirectors(directors, directorIndex, docType) ==
    LET old  == directors[directorIndex].documents
        keep == { i \in 1..Len(old) : old[i].type # docType }
        Filter[i \in 0..Len(old)] ==
            IF i = 0 THEN <<>>
            ELSE IF i \in keep THEN Append(Filter[i - 1], old[i])
            ELSE Filter[i - 1]
    IN  [ directors EXCEPT
            ![directorIndex].documents = Filter[Len(old)],
            ![directorIndex].panData = IF docType = "pan" THEN NoPanData ELSE @,
            ![directorIndex].aadhaarData =
                IF docType = "aadhaar" THEN NoAadhaarData ELSE @,
            ![directorIndex].validated =
                IF docType \in {"pan", "aadhaar"} THEN FALSE ELSE @ ]

\* lines 600-607: the slot of the n-th file selected
NewDocument(n, docType, file) ==
    [ id            |-> DateNow(n),
      type          |-> docType,
      contentBase64 |-> file,
      status        |-> "pending",
      extractedData |-> NoRawData ]

\* an attach or detach that declares the case complete
DraftUpdatesComplete(directors) == [directors |-> directors, status |-> "complete"]

\* the body of the PATCH of handleFileSelect and handleRemove
DraftUpdates(directors) == [directors |-> directors, status |-> "draft"]

\* handleFileSelect up to the PATCH (lines 579-637)
HandleFileSelect(file, docType, directorIndex) ==
    /\ caseData.loaded
    /\ uploads < MaxUploads
    /\ cases' = updateCase(cases, caseId,
          DraftUpdates(AttachDirectors(caseData.directors, directorIndex, docType,
                                       NewDocument(uploads, docType, file))))
    /\ uploads' = uploads + 1
    /\ last' = Step("attach", 0, Body(caseId, Num(directorIndex), docType, file),
                    CaseResponse(cases, caseId))
    /\ UNCHANGED <<calls, caseId, caseData, norm, manual>>

\* handleRemove up to the PATCH (lines 682-717); the upload zone shows its
\* remove button only while the snapshot holds a document of the type
HandleRemove(docType, directorIndex) ==
    /\ caseData.loaded
    /\ FindIndex(caseData.directors[directorIndex].documents, docType) # 0
    /\ cases' = updateCase(cases, caseId,
          DraftUpdates(RemoveDirectors(caseData.directors, directorIndex, docType)))
    /\ last' = Step("detach", 0, Body(caseId, Num(directorIndex), docType, "undefined"),
                    CaseResponse(cases, caseId))
    /\ UNCHANGED <<calls, caseId, caseData, uploads, norm, manual>>

\* an approval that completes the case whatever the other director is
ApproveUpdatesComplete(directors, directorIndex, editedPan, editedAadhaar) ==
    [ directors |->
        [ directors EXCEPT
            ![directorIndex].panData =
                IF editedPan.present THEN editedPan ELSE @,
            ![directorIndex].aadhaarData =
                IF editedAadhaar.present THEN editedAadhaar ELSE @,
            ![directorIndex].validated = TRUE ],
      status    |-> "complete" ]

\* the PATCH body of handleApproveDirector (lines 827-841)
ApproveUpdates(directors, directorIndex, editedPan, editedAadhaar) ==
    LET approved ==
            [ directors EXCEPT
                ![directorIndex].panData =
                    IF editedPan.present THEN editedPan ELSE @,
                ![directorIndex].aadhaarData =
                    IF editedAadhaar.present THEN editedAadhaar ELSE @,
                ![directorIndex].validated = TRUE ]
        allValidated == \A i \in DirectorIndex : approved[i].validated
    IN  [ directors |-> approved,
          status    |-> IF allValidated THEN "complete" ELSE "reviewing" ]

\* the guard of handleApproveDirector (lines 810-817)
CanApprove(directors, directorIndex, editedPan, editedAadhaar) ==
    /\ directors[directorIndex].panData.present \/ editedPan.present
    /\ directors[directorIndex].aadhaarData.present \/ editedAadhaar.present

\* handleApproveDirector up to the PATCH (lines 806-841); editedPan and
\* editedAadhaar are what the user typed into the review fields of the director
HandleApproveDirector(directorIndex, editedPan, editedAadhaar) ==
    /\ caseData.loaded
    /\ LET body == Body(caseId, Num(directorIndex), "undefined", "undefined")
       IN  IF ~CanApprove(caseData.directors, directorIndex, editedPan, editedAadhaar)
           THEN /\ last' = Step("approve", 0, body, Response(0,
                      "Both PAN and Aadhaar extraction are required before approval."))
                /\ UNCHANGED cases
           ELSE /\ cases' = updateCase(cases, caseId,
                      ApproveUpdates(caseData.directors, directorIndex,
                                     editedPan, editedAadhaar))
                /\ last' = Step("approve", 0, body, CaseResponse(cases, caseId))
    /\ UNCHANGED <<calls, caseId, caseData, uploads, norm, manual>>

---------------------------------------------------------------------------
(* The review tool: src/components/review-tool.tsx *)

\* the directors array handleConfirm sends (lines 79-86); the array is a
\* shallow copy, so the director it changes is the one of the SWR snapshot
ConfirmDirectors(directors, activeDirector, editedPan, editedAadhaar) ==
    [ directors EXCEPT
        ![activeDirector].panData = IF editedPan.present THEN editedPan ELSE @,
        ![activeDirector].aadhaarData =
            IF editedAadhaar.present THEN editedAadhaar ELSE @,
        ![activeDirector].validated = TRUE ]

\* handleConfirm up to the PATCH (lines 78-92)
HandleConfirm(activeDirector, editedPan, editedAadhaar) ==
    /\ caseData.loaded
    /\ LET directors == ConfirmDirectors(caseData.directors, activeDirector,
                                         editedPan, editedAadhaar)
       IN  /\ caseData' = [caseData EXCEPT !.directors = directors]
           /\ cases' = updateCase(cases, caseId, [directors |-> directors])
    /\ last' = Step("confirm", 0,
                    Body(caseId, Num(activeDirector), "undefined", "undefined"),
                    CaseResponse(cases, caseId))
    /\ UNCHANGED <<calls, caseId, uploads, norm, manual>>

---------------------------------------------------------------------------
(* The create route: src/app/api/cases/route.ts, lines 9-19 *)

\* the `name` of a request body: a string, another JSON value, or missing
StringName(text) == [kind |-> "string", text |-> text]

NoName == [kind |-> "undefined", text |-> <<>>]

NumberName == [kind |-> "number", text |-> <<>>]

\* a check that takes a blank name for a name
CreateCheckNoTrim(name) ==
    IF name.kind # "string" \/ Len(name.text) = 0
    THEN Response(400, "Case name is required")
    ELSE Response(201, "")

\* the response of lines 13-15 when the route returns there, else 201
CreateCheck(name) ==
    IF name.kind # "string" \/ Len(name.text) = 0 \/ Len(trim(name.text)) = 0
    THEN Response(400, "Case name is required")
    ELSE Response(201, "")

\* the n-th value of crypto.randomUUID()
randomUUID(n) == "case-" \o ToString(n)

\* the cases the create route stored
Created(store) == DOMAIN store \ SeedIds

\* the store after createCase(name)
createCase(store, id, name) ==
    [ k \in DOMAIN store \cup {id} |->
        IF k = id THEN createEmptyCase(name) ELSE store[k] ]

\* POST /api/cases
Create(name) ==
    /\ Cardinality(Created(cases)) < MaxCreates
    /\ LET r    == CreateCheck(name)
           id   == randomUUID(Cardinality(Created(cases)) + 1)
           body == Body(id, UndefinedNumber, "undefined", "undefined")
       IN  /\ cases' = IF r.http = 201 THEN createCase(cases, id, trim(name.text))
                       ELSE cases
           /\ last' = Step("create", 0, body, r) @@ [name |-> name]
    /\ UNCHANGED <<calls, caseId, caseData, uploads, norm, manual>>

\* the browser opens the page of a case the create route stored
Open(id) ==
    /\ id \in Created(cases)
    /\ id # caseId
    /\ caseId' = id
    /\ caseData' = Snapshot(cases, id)
    /\ last' = Step("get", 0, Body(id, UndefinedNumber, "undefined", "undefined"),
                    CaseResponse(cases, id))
    /\ UNCHANGED <<cases, calls, uploads, norm, manual>>

---------------------------------------------------------------------------
(* The manual fields form: src/components/manual-fields-form.tsx. It reads  *)
(* the case under the SWR key of the case view, so it renders the same      *)
(* snapshot caseData.                                                       *)

\* lines 61-65: useState(null) of the directors and of the company
NoManual ==
    [ directors    |-> [ edited |-> FALSE, value |-> createEmptyCase(<<>>).directors ],
      company      |-> [ edited |-> FALSE, value |-> EmptyCompanyInfo ] ]

\* lines 75-77: d, c and p, the form state or else a copy of the snapshot
FormDirectors == IF manual.directors.edited THEN manual.directors.value ELSE caseData.directors
FormCompany == IF manual.company.edited THEN manual.company.value ELSE caseData.companyInfo
\* the professional fields are never typed into here
FormProfessional == caseData.professionalInfo

Edit(idx) == Step("edit", 0, Body(caseId, idx, "undefined", "undefined"), Response(0, ""))

\* updateDirector(idx, "nationality", value), lines 79-83: the first edit
\* copies both directors of the snapshot whole into the form state
UpdateDirector(idx, value) ==
    /\ caseData.loaded
    /\ FormDirectors[idx].nationality # value
    /\ manual' = [manual EXCEPT !.directors =
          [ edited |-> TRUE, value |-> [FormDirectors EXCEPT ![idx].nationality = value] ]]
    /\ last' = Edit(Num(idx))
    /\ UNCHANGED <<cases, calls, caseId, caseData, uploads, norm>>

\* updateCompany("officeEmail", value), lines 84-86
UpdateCompany(value) ==
    /\ caseData.loaded
    /\ FormCompany.officeEmail # value
    /\ manual' = [manual EXCEPT !.company =
          [ edited |-> TRUE, value |-> [FormCompany EXCEPT !.officeEmail = value] ]]
    /\ last' = Edit(UndefinedNumber)
    /\ UNCHANGED <<cases, calls, caseId, caseData, uploads, norm>>

\* lines 97-100: { ...dir, ...d[idx] }. The copy d[idx] came out of a JSON
\* answer, which has no key for a field that was undefined, so an absent
\* panData or aadhaarData of the copy lets the one of the snapshot through
SaveDirectors(snapshot, d) ==
    [ idx \in DirectorIndex |->
        [ d[idx] EXCEPT
            !.panData     = IF @.present THEN @ ELSE snapshot[idx].panData,
            !.aadhaarData = IF @.present THEN @ ELSE snapshot[idx].aadhaarData ] ]

\* the body of the PATCH of handleSave (lines 105-109)
SaveUpdates ==
    [ directors        |-> SaveDirectors(caseData.directors, FormDirectors),
      companyInfo      |-> Spread(caseData.companyInfo, FormCompany),
      professionalInfo |-> Spread(caseData.professionalInfo, FormProfessional) ]

\* handleSave up to the PATCH (lines 92-110)
HandleSave ==
    /\ caseData.loaded
    /\ cases' = updateCase(cases, caseId, SaveUpdates)
    /\ last' = Step("save", 0, Body(caseId, UndefinedNumber, "undefined", "undefined"),
                    CaseResponse(cases, caseId))
    /\ UNCHANGED <<calls, caseId, caseData, uploads, norm, manual>>

---------------------------------------------------------------------------
(* The inputs of the model and its specifications *)

\* the file the user selects: the first one is img1, every later one img2
FileInputs == IF uploads = 0 THEN {"img1"} ELSE {"img2"}

\* the document types of the upload zones
DocTypeInputs == {"pan", "aadhaar", "photo"}

\* the well-formed bodies POSTed to /api/extract for the open case
ExtractBodies ==
    { Body(caseId, Num(d), type, image) :
        d \in DirectorIndex, type \in CoreType, image \in {"undefined"} \cup Payloads }

Init ==
    /\ cases = SeedStore
    /\ calls = [p \in 1..MaxPageCalls |-> IdleCall]
    /\ caseId \in SeedIds
    /\ caseData = Snapshot(SeedStore, caseId)
    /\ uploads = 0
    /\ norm = NoNorm
    /\ manual = NoManual
    /\ last = Step("init", 0, NoBody, Response(0, ""))

Next ==
    \/ \E p \in Procs, body \in ExtractBodies : ExtractRequest(p, body)
    \/ \E p \in Procs : ExtractOk(p)
    \/ \E p \in Procs : ExtractFail(p)
    \/ Mutate
    \/ \E file \in FileInputs, docType \in DocTypeInputs, d \in DirectorIndex :
          HandleFileSelect(file, docType, d)
    \/ \E docType \in DocTypeInputs, d \in DirectorIndex : HandleRemove(docType, d)

Spec == Init /\ [][Next]_vars

\* every body POSTed to /api/extract: fields missing, out of range, unknown
RequestBodies ==
    ExtractBodies \cup
    { Body(id, idx, type, "undefined") :
        id   \in {"undefined", caseId, UnknownId},
        idx  \in {UndefinedNumber, Num(-1), Num(0), Half, Num(1), Num(2)},
        type \in {"undefined", "pan", "aadhaar", "photo"} }

\* the page in use while requests of every shape reach the routes
InitApi ==
    /\ cases = SeedStore
    /\ calls = [p \in 1..MaxPageCalls |-> IdleCall]
    /\ caseId \in SeedIds
    /\ caseData = Snapshot(SeedStore, caseId)
    /\ uploads = MaxUploads - MaxApiUploads
    /\ norm = NoNorm
    /\ manual = NoManual
    /\ last = Step("init", 0, NoBody, Response(0, ""))

NextApi ==
    \/ \E p \in Procs, body \in RequestBodies : ExtractRequest(p, body)
    \/ \E p \in Procs : ExtractOk(p)
    \/ \E p \in Procs : ExtractFail(p)
    \/ \E id \in RequestIds : Get(id)
    \/ \E id \in RequestIds : Delete(id)
    \/ \E p \in Procs, id \in RequestIds \cup {"undefined"} : ExportRequest(p, id)
    \/ \E p \in Procs : ExportOk(p)
    \/ \E p \in Procs, http \in {500, 502} : ExportFail(p, http)
    \/ Mutate
    \/ \E file \in FileInputs, docType \in DocTypeInputs, d \in DirectorIndex :
          HandleFileSelect(file, docType, d)
    \/ \E docType \in DocTypeInputs, d \in DirectorIndex : HandleRemove(docType, d)

SpecApi == InitApi /\ [][NextApi]_vars

\* the stores after MaxUploads files were selected one after the other on a
\* freshly loaded page, each PATCH followed by its mutate()
UploadedStores(id) ==
    LET Slots == DirectorIndex \X DocTypeInputs
        Up[n \in 0..MaxUploads] ==
            IF n = 0 THEN {SeedStore[id].directors}
            ELSE { AttachDirectors(directors, k[1], k[2],
                       NewDocument(n - 1, k[2], IF n = 1 THEN "img1" ELSE "img2")) :
                     directors \in Up[n - 1], k \in Slots }
    IN  { updateCase(SeedStore, id, DraftUpdates(directors)) :
            directors \in Up[MaxUploads] }

\* two extract requests on a case nothing else touches
InitExtract ==
    /\ caseId \in SeedIds
    /\ cases \in UploadedStores(caseId)
    /\ calls = [p \in 1..MaxCalls |-> IdleCall]
    /\ caseData = Snapshot(cases, caseId)
    /\ uploads = MaxUploads
    /\ norm = NoNorm
    /\ manual = NoManual
    /\ last = Step("init", 0, NoBody, Response(0, ""))

NextExtract ==
    \/ \E p \in Procs, body \in ExtractBodies : ExtractRequest(p, body)
    \/ \E p \in Procs : ExtractOk(p)
    \/ \E p \in Procs : ExtractFail(p)

SpecExtract == InitExtract /\ [][NextExtract]_vars

\* the names POSTed to /api/cases: missing, not a string, empty, blank, padded
NameInputs ==
    { NoName, NumberName, StringName(<<>>), StringName(<<" ">>),
      StringName(<<" ", "N", " ">>) }

\* what the review fields of a director hold when the user approves: nothing
\* typed, or an edited copy of the data
EditedPanInputs == { NoPanData, [present |-> TRUE, pan_number |-> <<"E", "D">>] }

EditedAadhaarInputs ==
    { NoAadhaarData, [present |-> TRUE, aadhaar_number |-> <<"9">>] }

\* the file the user selects, an empty file included
AnyFileInputs == {"img1", ""}

\* the bodies handleProcessAll and handleReextract POST: no imageBase64
StoredContentBodies == { body \in ExtractBodies : body.imageBase64 = "undefined" }

\* the whole life of a case: created, opened, filled, extracted, approved
InitLife ==
    /\ cases = SeedStore
    /\ calls = [p \in 1..MaxPageCalls |-> IdleCall]
    /\ caseId \in SeedIds
    /\ caseData = Snapshot(SeedStore, caseId)
    /\ uploads = MaxUploads - MaxLifeUploads
    /\ norm = NoNorm
    /\ manual = NoManual
    /\ last = Step("init", 0, NoBody, Response(0, ""))

NextLife ==
    \/ \E name \in NameInputs : Create(name)
    \/ \E id \in DOMAIN cases : Open(id)
    \/ \E p \in Procs, body \in StoredContentBodies : ExtractRequest(p, body)
    \/ \E p \in Procs : ExtractOk(p)
    \/ \E p \in Procs : ExtractFail(p)
    \/ Mutate
    \/ \E file \in AnyFileInputs, docType \in DocTypeInputs, d \in DirectorIndex :
          HandleFileSelect(file, docType, d)
    \/ \E docType \in DocTypeInputs, d \in DirectorIndex : HandleRemove(docType, d)
    \/ \E d \in DirectorIndex : HandleApproveDirector(d, NoPanData, NoAadhaarData)
    \/ \E d \in DirectorIndex : HandleConfirm(d, NoPanData, NoAadhaarData)

SpecLife == InitLife /\ [][NextLife]_vars

\* the stores in which the second director holds the two uploaded documents
ReviewStores(id) ==
    { store \in UploadedStores(id) :
        \A type \in CoreType :
            FindIndex(store[id].directors[1].documents, type) # 0 }

\* the store after one extract call on the stored content of a slot ran from
\* its request to the merge of a successful answer, nothing in between
Extracted(store, id, directorIndex, documentType) ==
    LET directors == store[id].directors
        docIndex  == getTargetDocRef(directors, directorIndex, documentType)
        doc       == directors[directorIndex].documents[docIndex]
        marked    == updateCase(store, id,
                        [ directors     |-> ProcessingDirectors(directors, directorIndex,
                                              documentType, docIndex, doc.contentBase64),
                          inferenceMode |-> "modal",
                          status        |-> "extracting" ])
        call      == [ IdleCall EXCEPT
                         !.pc = "await", !.route = "extract",
                         !.body = Body(id, Num(directorIndex), documentType, "undefined"),
                         !.directorIndex = directorIndex,
                         !.contentBase64 = doc.contentBase64,
                         !.targetId = doc.id ]
    IN  MergeDone(marked, call, ModalResponse(doc.contentBase64))

\* the stores after both documents of the second director were extracted
ExtractedStores(id) ==
    { Extracted(Extracted(store, id, 1, "pan"), id, 1, "aadhaar") :
        store \in ReviewStores(id) }

\* the review of a case whose uploads are made and extracted: the user edits
\* and approves while a document is extracted again
InitReview ==
    /\ caseId \in SeedIds
    /\ cases \in ExtractedStores(caseId)
    /\ calls = [p \in 1..MaxPageCalls |-> IdleCall]
    /\ caseData = Snapshot(cases, caseId)
    /\ uploads = MaxUploads
    /\ norm = NoNorm
    /\ manual = NoManual
    /\ last = Step("init", 0, NoBody, Response(0, ""))

NextReview ==
    \/ \E p \in Procs, body \in StoredContentBodies : ExtractRequest(p, body)
    \/ \E p \in Procs : ExtractOk(p)
    \/ \E p \in Procs : ExtractFail(p)
    \/ Mutate
    \/ \E d \in DirectorIndex, editedPan \in EditedPanInputs,
          editedAadhaar \in EditedAadhaarInputs :
          HandleApproveDirector(d, editedPan, editedAadhaar)
    \/ \E d \in DirectorIndex, editedPan \in EditedPanInputs,
          editedAadhaar \in EditedAadhaarInputs :
          HandleConfirm(d, editedPan, editedAadhaar)

SpecReview == InitReview /\ [][NextReview]_vars

\* the values typed into the manual fields form
NationalityInputs == {"British"}
OfficeEmailInputs == {"office@abc.in"}

\* every operation of the pages and routes on the seeded case whose two
\* directors are approved
InitOps ==
    /\ caseId = "demo3"
    /\ cases = SeedStore
    /\ calls = [p \in 1..MaxPageCalls |-> IdleCall]
    /\ caseData = Snapshot(cases, caseId)
    /\ uploads = MaxUploads - MaxOpsUploads
    /\ norm = NoNorm
    /\ manual = NoManual
    /\ last = Step("init", 0, NoBody, Response(0, ""))

NextOps ==
    \/ \E p \in Procs, body \in StoredContentBodies : ExtractRequest(p, body)
    \/ \E p \in Procs : ExtractOk(p)
    \/ \E p \in Procs : ExtractFail(p)
    \/ \E p \in Procs : ExportRequest(p, caseId)
    \/ \E p \in Procs : ExportOk(p)
    \/ \E p \in Procs, http \in {500, 502} : ExportFail(p, http)
    \/ Mutate
    \/ \E file \in FileInputs, docType \in DocTypeInputs, d \in DirectorIndex :
          HandleFileSelect(file, docType, d)
    \/ \E docType \in DocTypeInputs, d \in DirectorIndex : HandleRemove(docType, d)
    \/ \E d \in DirectorIndex : HandleApproveDirector(d, NoPanData, NoAadhaarData)
    \/ \E d \in DirectorIndex, value \in NationalityInputs : UpdateDirector(d, value)
    \/ \E value \in OfficeEmailInputs : UpdateCompany(value)
    \/ HandleSave

SpecOps == InitOps /\ [][NextOps]_vars

\* the extract calls next to the first one, whose inference call may hang
Siblings2 == 2..MaxCalls

\* the route takes the request of handler q up to the inference call
Accepted(q) ==
    \E body \in StoredContentBodies : ExtractRequest(q, body) /\ calls'[q].pc = "await"

\* the inference call of handler q returns, with an answer or with a failure
Returns(q) == ExtractOk(q) \/ ExtractFail(q)

\* extract calls for the stored documents of the empty seeded case after the
\* uploads
InitHung ==
    /\ InitExtract
    /\ caseId = "demo2"

NextHung ==
    \/ \E p \in Procs, body \in StoredContentBodies : ExtractRequest(p, body)
    \/ \E p \in Procs : ExtractOk(p)
    \/ \E p \in Procs : ExtractFail(p)

\* the page sends the sibling requests (handleProcessAll starts all of them
\* before it awaits any) and the inference call of every call but the first
\* returns; nothing is assumed of the inference call of the first
SpecHung ==
    /\ InitHung
    /\ [][NextHung]_vars
    /\ \A q \in Siblings2 : WF_vars(Accepted(q)) /\ WF_vars(Returns(q))

\* extract and export calls that overlap on the empty seeded case after the
\* uploads
NextExport ==
    \/ \E p \in Procs, body \in StoredContentBodies : ExtractRequest(p, body)
    \/ \E p \in Procs : ExtractOk(p)
    \/ \E p \in Procs : ExtractFail(p)
    \/ \E p \in Procs : ExportRequest(p, caseId)
    \/ \E p \in Procs : ExportOk(p)
    \/ \E p \in Procs, http \in {500, 502} : ExportFail(p, http)

SpecExport == InitHung /\ [][NextExport]_vars

\* the strings of at most n characters of an alphabet
Strings(alphabet, n) == UNION { [1..k -> alphabet] : k \in 0..n }

\* pan_number values of an answer: short ones, and the one of the test card
RawPanInputs ==
    Strings({" ", "b", "Q", "6"}, MaxRawLen)
        \cup { <<"b", "q", "j", " ", "p", "k", "6", "3", "4", "7", "q">> }

\* aadhaar_number values of an answer: short ones, and twelve, eleven and
\* thirteen digits, bare, grouped and padded
RawAadhaarInputs ==
    Strings({" ", "1", "-"}, MaxRawLen)
        \cup { <<"8", "7", "6", "5", "4", "3", "2", "1", "0", "9", "8", "7">>,
               <<"8", "7", "6", "5", " ", "4", "3", "2", "1", " ", "0", "9", "8", "7">>,
               <<" ", "8", "7", "6", "5", "-", "4", "3", "2", "1", "-", "0", "9", "8",
                 "7", " ">>,
               <<"8", "7", "6", "5", "4", "3", "2", "1", "0", "9", "8">>,
               <<"8", "7", "6", "5", "4", "3", "2", "1", "0", "9", "8", "7", "6">> }

\* the converters alone, on every answer of the input sets
InitNorm ==
    /\ cases = SeedStore
    /\ calls = [p \in 1..MaxPageCalls |-> IdleCall]
    /\ caseId = "demo1"
    /\ caseData = Snapshot(SeedStore, caseId)
    /\ uploads = 0
    /\ manual = NoManual
    /\ norm \in { [ NoNorm EXCEPT !.raw = [ present        |-> TRUE,
                                            pan_number     |-> pan,
                                            aadhaar_number |-> aadhaar ] ] :
                     pan \in RawPanInputs, aadhaar \in RawAadhaarInputs }
    /\ last = Step("init", 0, NoBody, Response(0, ""))

NextNorm == Normalise \/ Renormalise

SpecNorm == InitNorm /\ [][NextNorm]_vars

---------------------------------------------------------------------------
(* Vocabulary of the properties *)

\* the slots of one type a director holds
SlotsOf(director, type) ==
    { i \in 1..Len(director.documents) : director.documents[i].type = type }

HasSlot(director, type) == SlotsOf(director, type) # {}

\* every slot of the type is in the given status
SlotIs(director, type, status) ==
    /\ HasSlot(director, type)
    /\ \A i \in SlotsOf(director, type) : director.documents[i].status = status

\* the extracted data of a director for one core type
DataOf(director, type) ==
    IF type = "pan" THEN director.panData ELSE director.aadhaarData

\* what a call's own answer becomes once stored
OwnData(call) ==
    IF call.body.documentType = "pan"
    THEN toPanData(ModalResponse(call.contentBase64))
    ELSE toAadhaarData(ModalResponse(call.contentBase64))

\* the (directorIndex, documentType) key of an extract call
KeyOf(call) == <<call.directorIndex, call.body.documentType>>

\* the director an extract call is about, in the stored case
DirectorOf(call) == cases[call.body.caseId].directors[call.directorIndex]

\* an extract call that ran to its response with the given status code
Returned(p, http) ==
    calls[p].route = "extract" /\ calls[p].pc = "done" /\ calls[p].http = http

\* two extract calls on distinct keys of the same case, and no other call
Siblings(p, q) ==
    /\ p # q
    /\ calls[p].body.caseId = calls[q].body.caseId
    /\ KeyOf(calls[p]) # KeyOf(calls[q])
    /\ \A r \in Procs \ {p, q} : calls[r].pc = "idle"

---------------------------------------------------------------------------
(* C1: two extract calls on distinct (directorIndex, documentType) keys of *)
(* one case, both inference calls succeeding and nothing else touching the *)
(* case: once both have returned, both target slots are done and both      *)
(* extracted-data fields hold their own call's result, in every order.     *)
C1_MergeCommutativity ==
    \A p, q \in Procs :
        (Siblings(p, q) /\ Returned(p, 200) /\ Returned(q, 200)) =>
            /\ SlotIs(DirectorOf(calls[p]), calls[p].body.documentType, "done")
            /\ SlotIs(DirectorOf(calls[q]), calls[q].body.documentType, "done")
            /\ DataOf(DirectorOf(calls[p]), calls[p].body.documentType) = OwnData(calls[p])
            /\ DataOf(DirectorOf(calls[q]), calls[q].body.documentType) = OwnData(calls[q])

\* both siblings returned, the one on the same director finishing last
C1_Witness ==
    \E p, q \in Procs :
        /\ Siblings(p, q) /\ Returned(p, 200) /\ Returned(q, 200)
        /\ calls[p].directorIndex = calls[q].directorIndex
        /\ last.op = "extract:ok" /\ last.proc = p

(* C2: of two extract calls on distinct keys of one case, one fails at the *)
(* inference call and the other succeeds: in every order the failed call's *)
(* slot ends in status error and the other slot in status done with its    *)
(* own extracted data.                                                     *)
C2_FailureIsLocal ==
    \A p, q \in Procs :
        (Siblings(p, q) /\ Returned(p, 502) /\ Returned(q, 200)) =>
            /\ SlotIs(DirectorOf(calls[p]), calls[p].body.documentType, "error")
            /\ SlotIs(DirectorOf(calls[q]), calls[q].body.documentType, "done")
            /\ DataOf(DirectorOf(calls[q]), calls[q].body.documentType) = OwnData(calls[q])

\* the failure is the later of the two terminal steps, on the same director
C2_Witness ==
    \E p, q \in Procs :
        /\ Siblings(p, q) /\ Returned(p, 502) /\ Returned(q, 200)
        /\ calls[p].directorIndex = calls[q].directorIndex
        /\ last.op = "extract:failed" /\ last.proc = p

(* C9: the case status an extract terminal write stores is the reference  *)
(* function of the four required slots (pan and aadhaar of both directors) *)
(* of the record it writes: reviewing when all four exist and are done,    *)
(* otherwise extracting when at least one exists, otherwise draft.         *)
RequiredSlots == DirectorIndex \X CoreType

ReferenceStatus(directors) ==
    IF \A k \in RequiredSlots : SlotIs(directors[k[1]], k[2], "done")
    THEN "reviewing"
    ELSE IF \E k \in RequiredSlots : HasSlot(directors[k[1]], k[2])
    THEN "extracting"
    ELSE "draft"

\* the last step was an extract terminal step that wrote the record
TerminalWritten ==
    /\ last.op \in {"extract:ok", "extract:failed"}
    /\ Has(cases, last.body.caseId)
    /\ HasSlot(DirectorOf(calls[last.proc]), last.body.documentType)

C9_StatusIsReference ==
    TerminalWritten =>
        cases[last.body.caseId].status =
            ReferenceStatus(cases[last.body.caseId].directors)

\* a terminal write that stored reviewing
C9_Witness ==
    /\ TerminalWritten
    /\ last.op = "extract:ok"
    /\ cases[last.body.caseId].status = "reviewing"

---------------------------------------------------------------------------
\* the slot of the type a director holds (the first, as findIndex gives it)
SlotOf(director, type) == director.documents[FindIndex(director.documents, type)]

\* the director the request of the last step names, in the given store
LastDirector(store) ==
    store[last.body.caseId].directors[last.body.directorIndex.num]

(* C3: an extract call whose inference call returns an answer after its    *)
(* slot was detached answers with the conflict outcome, which is none of   *)
(* the validation, not-found and external-dependency outcomes, and its     *)
(* terminal step leaves the store as it found it.                          *)
C3_DetachedSlotConflict ==
    [][ ( /\ last'.op = "extract:ok"
          /\ Has(cases, last'.body.caseId)
          /\ ~HasSlot(cases[last'.body.caseId].directors[last'.body.directorIndex.num],
                      last'.body.documentType) )
        => ( /\ last'.http = 409
             /\ last'.http \notin {400, 404, 502}
             /\ last'.error = "Document was removed while extraction was in progress."
             /\ cases' = cases ) ]_vars

\* the answer arrived for a slot that is gone
C3_Witness ==
    /\ last.op = "extract:ok"
    /\ last.http = 409
    /\ Has(cases, last.body.caseId)
    /\ ~HasSlot(LastDirector(cases), last.body.documentType)

(* C4: an extract call whose slot was replaced by a new upload of the same *)
(* type while it was in flight answers with the conflict outcome, and the  *)
(* replacement slot is not marked done and the data field of the type does *)
(* not hold the result obtained from the replaced document.                *)
C4_ReplacedSlotConflict ==
    ( /\ last.op = "extract:ok"
      /\ Has(cases, last.body.caseId)
      /\ HasSlot(LastDirector(cases), last.body.documentType)
      /\ SlotOf(LastDirector(cases), last.body.documentType).id
            # calls[last.proc].targetId )
    => ( /\ last.http = 409
         /\ SlotOf(LastDirector(cases), last.body.documentType).status # "done"
         /\ DataOf(LastDirector(cases), last.body.documentType)
               # OwnData(calls[last.proc]) )

(* C5: a terminal result (status done or error, and the extracted data) of *)
(* a required slot that is in the store when an attach or a detach for a   *)
(* different slot persists is still there after that persist.              *)
C5_TerminalResultSurvives ==
    [][ ( last'.op \in {"attach", "detach"} /\ last'.http = 200 )
        => \A k \in RequiredSlots :
              ( /\ k # <<last'.body.directorIndex.num, last'.body.documentType>>
                /\ HasSlot(cases[caseId].directors[k[1]], k[2])
                /\ SlotOf(cases[caseId].directors[k[1]], k[2]).status
                      \in {"done", "error"} )
              => ( /\ HasSlot(cases'[caseId].directors[k[1]], k[2])
                   /\ SlotOf(cases'[caseId].directors[k[1]], k[2]).status
                         = SlotOf(cases[caseId].directors[k[1]], k[2]).status
                   /\ DataOf(cases'[caseId].directors[k[1]], k[2])
                         = DataOf(cases[caseId].directors[k[1]], k[2]) ) ]_vars

(* C10: after an attach or a detach of a pan or aadhaar document the       *)
(* stored director has validated = false and no extracted data of that     *)
(* type, whatever it held before; an attached slot is pending, a detached  *)
(* slot is gone.                                                           *)
C10_AttachDetachInvalidates ==
    ( /\ last.op \in {"attach", "detach"}
      /\ last.http = 200
      /\ last.body.documentType \in CoreType )
    => ( /\ ~LastDirector(cases).validated
         /\ ~DataOf(LastDirector(cases), last.body.documentType).present
         /\ last.op = "attach" =>
               /\ SlotIs(LastDirector(cases), last.body.documentType, "pending")
               /\ SlotOf(LastDirector(cases), last.body.documentType).contentBase64
                     = last.body.imageBase64
         /\ last.op = "detach" =>
               ~HasSlot(LastDirector(cases), last.body.documentType) )

\* a first attach over the validated director of the completed seed case
C10_Witness ==
    /\ last.op = "attach"
    /\ last.http = 200
    /\ last.body.documentType = "pan"
    /\ last.body.directorIndex = Num(0)
    /\ caseId = "demo3"
    /\ uploads = 1

---------------------------------------------------------------------------
\* an extract request the validation rules of the route are to reject
Malformed(body) ==
    \/ Falsy(body.caseId)
    \/ body.directorIndex = UndefinedNumber
    \/ Falsy(body.documentType)
    \/ body.directorIndex \notin {Num(0), Num(1)}
    \/ body.documentType \notin CoreType

ValidationErrors ==
    { "Missing required fields: caseId, directorIndex, documentType",
      "directorIndex must be 0 or 1",
      "documentType must be pan or aadhaar" }

(* C6: an extract request that lacks caseId, directorIndex or documentType, *)
(* or whose directorIndex is not 0 or 1, or whose documentType is not pan   *)
(* or aadhaar, is answered with a validation error and leaves the store    *)
(* unchanged.                                                              *)
C6_MalformedRejected ==
    [][ ( last'.op = "extract" /\ Malformed(last'.body) )
        => ( /\ last'.http = 400
             /\ last'.error \in ValidationErrors
             /\ cases' = cases ) ]_vars

(* C7: a well-formed extract request with no payload, for an existing case *)
(* whose director holds no slot of the type, is answered with the          *)
(* missing-document outcome and leaves the whole store unchanged.          *)
C7_MissingDocument ==
    [][ ( /\ last'.op = "extract"
          /\ ~Malformed(last'.body)
          /\ last'.body.imageBase64 = "undefined"
          /\ Has(cases, last'.body.caseId)
          /\ ~HasSlot(cases[last'.body.caseId].directors[last'.body.directorIndex.num],
                      last'.body.documentType) )
        => ( /\ last'.http = 400
             /\ last'.error = "No document uploaded for director"
             /\ cases' = cases ) ]_vars

\* the request came for the validated director of the completed seed case
C7_Witness ==
    /\ last.op = "extract"
    /\ last.error = "No document uploaded for director"
    /\ last.body.imageBase64 = "undefined"
    /\ Has(cases, last.body.caseId)
    /\ LastDirector(cases).validated
    /\ cases[last.body.caseId].status = "complete"

(* C8: a get, an update (the PATCH of attach and detach), a delete, a      *)
(* well-formed extract request or an export request for a case identifier  *)
(* that is not in the store is answered not-found and leaves the store     *)
(* unchanged.                                                              *)
C8_UnknownCaseNotFound ==
    [][ ( /\ last'.op \in {"get", "attach", "detach", "delete", "extract", "export"}
          /\ ~Falsy(last'.body.caseId)
          /\ ~Has(cases, last'.body.caseId)
          /\ last'.op = "extract" => ~Malformed(last'.body) )
        => ( /\ last'.http = 404
             /\ last'.error = "Case not found"
             /\ cases' = cases ) ]_vars

\* the PATCH of an attach reached a case that had been deleted
C8_Witness ==
    /\ last.op = "attach"
    /\ last.http = 404
    /\ ~Has(cases, last.body.caseId)

---------------------------------------------------------------------------
(* C11: in every state reached by create, attach, detach, extract and      *)
(* approval steps, each director of each stored case holds at most one     *)
(* slot of each document type.                                             *)
C11_OneSlotPerType ==
    \A id \in DOMAIN cases : \A d \in DirectorIndex : \A type \in DocType :
        Cardinality(SlotsOf(cases[id].directors[d], type)) <= 1

\* a file was attached over the seeded pan slot and took its place
C11_Witness ==
    /\ last.op = "attach"
    /\ last.http = 200
    /\ last.body.caseId = "demo1"
    /\ last.body.directorIndex = Num(0)
    /\ last.body.documentType = "pan"
    /\ Len(cases["demo1"].directors[0].documents) = 2
    /\ cases["demo1"].directors[0].documents[1].type = "pan"
    /\ cases["demo1"].directors[0].documents[1].status = "pending"

(* C12: an attach whose content payload is empty is answered with an       *)
(* input-validation failure and leaves the store unchanged.                *)
C12_EmptyAttachRejected ==
    [][ ( last'.op = "attach" /\ last'.body.imageBase64 = "" )
        => ( last'.http = 400 /\ cases' = cases ) ]_vars

(* C13: an approval (the case view's approve action or the review tool's    *)
(* confirm action) of a director whose stored panData or aadhaarData is    *)
(* missing signals the guard failure and leaves the store unchanged.       *)
C13_ApprovalGuard ==
    [][ ( /\ last'.op \in {"approve", "confirm"}
          /\ Has(cases, last'.body.caseId)
          /\ \/ ~cases[last'.body.caseId].directors[last'.body.directorIndex.num]
                    .panData.present
             \/ ~cases[last'.body.caseId].directors[last'.body.directorIndex.num]
                    .aadhaarData.present )
        => ( /\ last'.error
                  = "Both PAN and Aadhaar extraction are required before approval."
             /\ cases' = cases ) ]_vars

C15_ValidatedHasData ==
    \A id \in DOMAIN cases : \A d \in DirectorIndex :
        cases[id].directors[d].validated =>
            /\ cases[id].directors[d].panData.present
            /\ cases[id].directors[d].aadhaarData.present

(* C16: when the spreadsheet call fails (fetch throws, or the answer is     *)
(* not a success) the export route answers with an export failure and      *)
(* leaves the store unchanged; of the steps of the export route only the   *)
(* one after a successful answer sets the status complete.                 *)
C16_ExportFailureKeepsStatus ==
    [][ /\ last'.op = "export:failed"
            => ( last'.http \in {500, 502} /\ cases' = cases )
        /\ ( /\ last'.op \in {"export", "export:ok", "export:failed"}
             /\ Has(cases, last'.body.caseId)
             /\ cases'[last'.body.caseId].status # cases[last'.body.caseId].status )
            => ( /\ last'.op = "export:ok"
                 /\ cases'[last'.body.caseId].status = "complete" ) ]_vars

\* the spreadsheet call failed for a case that is not complete
C16_Witness ==
    /\ last.op = "export:failed"
    /\ Has(cases, last.body.caseId)
    /\ cases[last.body.caseId].status # "complete"

(* C17: on a case the create route stored, whose only document is a pan    *)
(* attached to director 0, an extract call for (0, pan) whose inference    *)
(* call succeeds ends with the slot done, panData of director 0 taken from *)
(* the answer, director 0 not validated and the case status extracting.    *)
C17_CreateAttachExtract ==
    ( /\ last.op = "extract:ok"
      /\ last.http = 200
      /\ last.body.caseId \in Created(cases)
      /\ last.body.directorIndex = Num(0)
      /\ last.body.documentType = "pan"
      /\ Len(cases[last.body.caseId].directors[0].documents) = 1
      /\ Len(cases[last.body.caseId].directors[1].documents) = 0 )
    => ( /\ SlotIs(cases[last.body.caseId].directors[0], "pan", "done")
         /\ cases[last.body.caseId].directors[0].panData.present
         /\ cases[last.body.caseId].directors[0].panData = OwnData(calls[last.proc])
         /\ ~cases[last.body.caseId].directors[0].validated
         /\ cases[last.body.caseId].status = "extracting" )

\* the answer "bqj pk6347q" was stored for the new case
C17_Witness ==
    /\ last.op = "extract:ok"
    /\ last.http = 200
    /\ last.body.caseId \in Created(cases)
    /\ last.body.directorIndex = Num(0)
    /\ last.body.documentType = "pan"
    /\ Len(cases[last.body.caseId].directors[0].documents) = 1
    /\ Len(cases[last.body.caseId].directors[1].documents) = 0
    /\ cases[last.body.caseId].directors[0].panData.pan_number
          = <<"B", "Q", "J", "P", "K", "6", "3", "4", "7", "Q">>

\* a string of no characters, or of whitespace only
BlankName(name) ==
    name.kind = "string" /\ \A i \in 1..Len(name.text) : name.text[i] \in Whitespace

\* a director as a new case holds it
DefaultDirector(director) ==
    /\ director.documents = <<>>
    /\ ~director.panData.present
    /\ ~director.aadhaarData.present
    /\ ~director.validated
    /\ director.nationality = "Indian"
    /\ director.residentOfIndia = "Yes"

(* C18: a create request with a name adds exactly one record, under an id  *)
(* that was not in the store, and leaves every other record unchanged; the *)
(* new record has status draft and two directors without documents,        *)
(* panData or aadhaarData, not validated, nationality Indian and residency *)
(* Yes.  A create request with an empty or blank name is rejected and adds *)
(* no record.                                                              *)
C18_Create ==
    [][ last'.op = "create"
        => /\ ( last'.name.kind = "string" /\ ~BlankName(last'.name) )
                => \E id \in DOMAIN cases' \ DOMAIN cases :
                     /\ DOMAIN cases' = DOMAIN cases \cup {id}
                     /\ \A k \in DOMAIN cases : cases'[k] = cases[k]
                     /\ last'.http = 201
                     /\ cases'[id].status = "draft"
                     /\ DOMAIN cases'[id].directors = {0, 1}
                     /\ \A i \in {0, 1} : DefaultDirector(cases'[id].directors[i])
           /\ BlankName(last'.name)
                => ( last'.http = 400 /\ cases' = cases ) ]_vars

\* a padded name was accepted and stored trimmed
C18_Witness ==
    /\ last.op = "create"
    /\ last.http = 201
    /\ last.name = StringName(<<" ", "N", " ">>)
    /\ Has(cases, last.body.caseId)
    /\ cases[last.body.caseId].name = <<"N">>

---------------------------------------------------------------------------
\* the upper-case letter of a lower-case one
UpperOf ==
    [ c \in {"a", "b", "j", "k", "p", "q"} |->
        CASE c = "a" -> "A" [] c = "b" -> "B" [] c = "j" -> "J"
          [] c = "k" -> "K" [] c = "p" -> "P" [] c = "q" -> "Q" ]

\* a string without its whitespace, letters in upper case
RECURSIVE StrippedUpper(_)
StrippedUpper(s) ==
    IF s = <<>> THEN <<>>
    ELSE IF Head(s) = " " THEN StrippedUpper(Tail(s))
    ELSE <<IF Head(s) \in DOMAIN UpperOf THEN UpperOf[Head(s)] ELSE Head(s)>>
            \o StrippedUpper(Tail(s))

\* the digits of a string, in order
RECURSIVE DigitsOf(_)
DigitsOf(s) ==
    IF s = <<>> THEN <<>>
    ELSE IF Head(s) \in {"0", "1", "2", "3", "4", "5", "6", "7", "8", "9"}
    THEN <<Head(s)>> \o DigitsOf(Tail(s))
    ELSE DigitsOf(Tail(s))

\* twelve digits in three blocks of four
Grouped(digits) ==
    SubSeq(digits, 1, 4) \o <<" ">> \o SubSeq(digits, 5, 8) \o <<" ">>
        \o SubSeq(digits, 9, 12)

(* C19: the stored pan_number is the answer's value without whitespace and *)
(* in upper case (bqj pk6347q gives BQJPK6347Q); the stored aadhaar_number *)
(* is the digits in 4-4-4 blocks when the answer's value holds exactly 12  *)
(* digits (876543210987 gives 8765 4321 0987) and the answer's value       *)
(* itself otherwise; converting a converted value gives it back.           *)
C19_Normalisation ==
    /\ norm.passes >= 1 =>
          /\ norm.panData.pan_number = StrippedUpper(norm.raw.pan_number)
          /\ norm.aadhaarData.aadhaar_number =
                IF Len(DigitsOf(norm.raw.aadhaar_number)) = 12
                THEN Grouped(DigitsOf(norm.raw.aadhaar_number))
                ELSE norm.raw.aadhaar_number
          /\ norm.raw.pan_number
                = <<"b", "q", "j", " ", "p", "k", "6", "3", "4", "7", "q">>
              => norm.panData.pan_number
                   = <<"B", "Q", "J", "P", "K", "6", "3", "4", "7", "Q">>
          /\ norm.raw.aadhaar_number
                = <<"8", "7", "6", "5", "4", "3", "2", "1", "0", "9", "8", "7">>
              => norm.aadhaarData.aadhaar_number
                   = <<"8", "7", "6", "5", " ", "4", "3", "2", "1", " ",
                       "0", "9", "8", "7">>
    /\ norm.passes = 2 =>
          /\ norm.panAgain = norm.panData
          /\ norm.aadhaarAgain = norm.aadhaarData

\* the core type that is not type
OtherCoreType(type) == IF type = "pan" THEN "aadhaar" ELSE "pan"

\* the fields of a case that no extract write names
CaseFrame(case) ==
    [ name             |-> case.name,
      companyInfo      |-> case.companyInfo,
      professionalInfo |-> case.professionalInfo ]

\* the manual fields of a director
ManualFields(director) ==
    [ nationality     |-> director.nationality,
      residentOfIndia |-> director.residentOfIndia ]

(* C20: the terminal write of an extract call, done or error, leaves every *)
(* other case as it was and changes in the case of the call, relative to   *)
(* the record stored just before, at most the target slot, the target      *)
(* director's extracted data of the target type and validated flag, the    *)
(* case status and inferenceMode: the other director, every other slot of  *)
(* the target director, its data of the other type, its manual fields and  *)
(* the name, company and professional fields of the case are unchanged.    *)
C20_TerminalWriteFrame ==
    [][ last'.op \in {"extract:ok", "extract:failed"}
          => LET id   == last'.body.caseId
                 d    == calls[last'.proc].directorIndex
                 type == last'.body.documentType
             IN  /\ DOMAIN cases' = DOMAIN cases
                 /\ \A other \in DOMAIN cases \ {id} : cases'[other] = cases[other]
                 /\ Has(cases, id) =>
                       LET old == cases[id]
                           new == cases'[id]
                       IN  /\ CaseFrame(new) = CaseFrame(old)
                           /\ \A e \in DirectorIndex \ {d} :
                                 new.directors[e] = old.directors[e]
                           /\ ManualFields(new.directors[d]) = ManualFields(old.directors[d])
                           /\ DataOf(new.directors[d], OtherCoreType(type))
                                 = DataOf(old.directors[d], OtherCoreType(type))
                           /\ Len(new.directors[d].documents) = Len(old.directors[d].documents)
                           /\ \A i \in DOMAIN old.directors[d].documents :
                                 i # getTargetDocRef(old.directors, d, type)
                                   => new.directors[d].documents[i]
                                        = old.directors[d].documents[i] ]_vars

\* an extract call wrote done into a case whose other director is validated,
\* whose target director holds the data of the other type and a second slot
C20_Witness ==
    /\ last.op = "extract:ok"
    /\ last.http = 200
    /\ LET d        == calls[last.proc].directorIndex
           directors == cases[last.body.caseId].directors
       IN  /\ \E e \in DirectorIndex \ {d} : directors[e].validated
           /\ DataOf(directors[d], OtherCoreType(last.body.documentType)).present
           /\ Len(directors[d].documents) = 2

(* C21: right after the mark-processing write of an extract call the       *)
(* target slot is processing, the target director's extracted data of the  *)
(* target type is absent and its validated flag is false, while every      *)
(* other slot of that director, its data of the other type, its manual     *)
(* fields, the other director and every other case are as they were when   *)
(* the call read the case. The route reads the case (line 177) and writes  *)
(* it (line 211) without an await in between, so the read and the write    *)
(* are one step and the store before the step is the store the call read.  *)
C21_MarkProcessing ==
    [][ ( last'.op = "extract" /\ last'.proc # 0 )
          => LET id   == last'.body.caseId
                 d    == calls'[last'.proc].directorIndex
                 type == last'.body.documentType
                 old  == cases[id]
                 new  == cases'[id]
                 k    == getTargetDocRef(old.directors, d, type)
             IN  /\ DOMAIN cases' = DOMAIN cases
                 /\ \A other \in DOMAIN cases \ {id} : cases'[other] = cases[other]
                 /\ k # 0
                 /\ new.directors[d].documents[k].status = "processing"
                 /\ new.directors[d].documents[k].type = type
                 /\ ~DataOf(new.directors[d], type).present
                 /\ ~new.directors[d].validated
                 /\ CaseFrame(new) = CaseFrame(old)
                 /\ \A e \in DirectorIndex \ {d} :
                       new.directors[e] = old.directors[e]
                 /\ ManualFields(new.directors[d]) = ManualFields(old.directors[d])
                 /\ DataOf(new.directors[d], OtherCoreType(type))
                       = DataOf(old.directors[d], OtherCoreType(type))
                 /\ Len(new.directors[d].documents) = Len(old.directors[d].documents)
                 /\ \A i \in DOMAIN old.directors[d].documents :
                       i # k => new.directors[d].documents[i]
                                  = old.directors[d].documents[i] ]_vars

\* a call has just marked a slot of a director that holds a second slot and
\* the data of the other type, next to a validated director
C21_Witness ==
    /\ last.op = "extract"
    /\ last.proc # 0
    /\ LET d         == calls[last.proc].directorIndex
           directors == cases[last.body.caseId].directors
       IN  /\ SlotIs(directors[d], last.body.documentType, "processing")
           /\ \E e \in DirectorIndex \ {d} : directors[e].validated
           /\ DataOf(directors[d], OtherCoreType(last.body.documentType)).present
           /\ Len(directors[d].documents) = 2

(* C22: every terminal write of an extract call, done or error, stores     *)
(* with the directors it writes the status derived from those same         *)
(* directors: after the step the stored status is the reference status of  *)
(* the stored directors, whatever the status and the directors were        *)
(* before the step.                                                        *)
C22_TerminalStatusFromWritten ==
    [][ ( /\ last'.op \in {"extract:ok", "extract:failed"}
          /\ Has(cases, last'.body.caseId)
          /\ HasSlot(DirectorOf(calls[last'.proc]), last'.body.documentType) )
          => /\ cases'[last'.body.caseId].status
                  = ReferenceStatus(cases'[last'.body.caseId].directors)
             /\ cases'[last'.body.caseId].status \in {"draft", "extracting", "reviewing"} ]_vars

\* the catch branch wrote error into the one required slot that was not done:
\* the record holds all four slots and the status written with it is extracting
C22_Witness ==
    /\ last.op = "extract:failed"
    /\ Has(cases, last.body.caseId)
    /\ LET directors == cases[last.body.caseId].directors
           key       == KeyOf(calls[last.proc])
       IN  /\ SlotIs(directors[key[1]], key[2], "error")
           /\ \A k \in RequiredSlots \ {key} : SlotIs(directors[k[1]], k[2], "done")
           /\ cases[last.body.caseId].status = "extracting"

(* C23: after every persist of a case by attach, detach, the               *)
(* mark-processing write or a terminal write of an extract call, the       *)
(* stored status is the one derived from the stored directors (reviewing   *)
(* when the four required slots exist and are done, else extracting when   *)
(* one exists, else draft); after attaching a pan or aadhaar document it   *)
(* is extracting, and attaching a photo or signature leaves it as it was.  *)
C23_StatusDerivedOnPersist ==
    [][ LET id == last'.body.caseId
        IN  /\ ( /\ Has(cases, id)
                 /\ \/ last'.op \in {"attach", "detach"}
                    \/ last'.op = "extract" /\ last'.proc # 0
                    \/ /\ last'.op \in {"extract:ok", "extract:failed"}
                       /\ HasSlot(DirectorOf(calls[last'.proc]), last'.body.documentType) )
                => cases'[id].status = ReferenceStatus(cases'[id].directors)
            /\ ( /\ Has(cases, id)
                 /\ last'.op = "attach"
                 /\ last'.body.documentType \in CoreType )
                => cases'[id].status = "extracting"
            /\ ( /\ Has(cases, id)
                 /\ last'.op = "attach"
                 /\ last'.body.documentType \notin CoreType )
                => cases'[id].status = cases[id].status ]_vars

\* the cases whose status the step changed to complete
Completed == { id \in DOMAIN cases' :
                 /\ cases'[id].status = "complete"
                 /\ id \in DOMAIN cases => cases[id].status # "complete" }

(* C24: no attach, detach or extract step, mark-processing or terminal,    *)
(* sets a status to complete: a step after which a case is complete that   *)
(* was not complete before is a successful export, or an approval that     *)
(* stored both directors validated.                                        *)
C24_CompleteOnlyByExportOrApproval ==
    [][ \A id \in Completed :
          \/ last'.op = "export:ok" /\ last'.body.caseId = id
          \/ /\ last'.op = "approve"
             /\ last'.body.caseId = id
             /\ \A d \in DirectorIndex : cases'[id].directors[d].validated ]_vars

\* an approval completed a case that holds a document: the attach that
\* stored the document had set the status to draft
C24_Witness ==
    /\ last.op = "approve"
    /\ last.http = 200
    /\ cases[last.body.caseId].status = "complete"
    /\ \E d \in DirectorIndex : cases[last.body.caseId].directors[d].documents # <<>>

(* C25: while the inference call of the first extract call has not         *)
(* returned, and whether it ever returns or not, every other extract call  *)
(* on the case is taken up to its mark-processing write and, once its own  *)
(* inference call returns, reaches its terminal step.                      *)
C25_HungCallBlocksNoSibling ==
    \A q \in Siblings2 : (calls[1].pc = "await") ~> (calls[q].pc = "done")

\* a sibling reached its terminal write while the first call still waits
C25_Witness ==
    /\ calls[1].pc = "await"
    /\ last.op \in {"extract:ok", "extract:failed"}
    /\ last.proc \in Siblings2
    /\ calls[last.proc].pc = "done"
    /\ calls[last.proc].body.caseId = calls[1].body.caseId
    /\ SlotIs(DirectorOf(calls[last.proc]), last.body.documentType, "done")

(* C26: an inference call that fails (endpoint unreachable, not            *)
(* configured, or answering a non-success) ends the extract call with the  *)
(* external-dependency outcome and, the slot being still there, leaves it  *)
(* in error; the case stays usable: an extract request for a slot in       *)
(* error is taken up to its mark-processing write, and when its inference  *)
(* call succeeds the slot is done and the director holds the data of the   *)
(* answer.                                                                 *)
C26_ErrorThenRetry ==
    [][ /\ last'.op = "extract:failed"
            => /\ last'.http = 502
               /\ ( /\ Has(cases, last'.body.caseId)
                    /\ HasSlot(DirectorOf(calls[last'.proc]), last'.body.documentType) )
                   => SlotIs(cases'[last'.body.caseId].directors[calls[last'.proc].directorIndex],
                             last'.body.documentType, "error")
        /\ ( /\ last'.op = "extract"
             /\ last'.body \in ExtractBodies
             /\ Has(cases, last'.body.caseId)
             /\ SlotIs(cases[last'.body.caseId].directors[last'.body.directorIndex.num],
                       last'.body.documentType, "error") )
            => /\ last'.proc # 0
               /\ calls'[last'.proc].pc = "await"
               /\ SlotIs(cases'[last'.body.caseId].directors[last'.body.directorIndex.num],
                         last'.body.documentType, "processing")
        /\ ( /\ last'.op = "extract:ok"
             /\ Has(cases, last'.body.caseId)
             /\ HasSlot(DirectorOf(calls[last'.proc]), last'.body.documentType) )
            => LET director ==
                     cases'[last'.body.caseId].directors[calls[last'.proc].directorIndex]
               IN  /\ last'.http = 200
                   /\ SlotIs(director, last'.body.documentType, "done")
                   /\ DataOf(director, last'.body.documentType) = OwnData(calls[last'.proc])
                   /\ DataOf(director, last'.body.documentType).present ]_vars

\* an extract call succeeded on the slot an earlier call had left in error
C26_Witness ==
    /\ last.op = "extract:ok"
    /\ last.http = 200
    /\ \E q \in Procs :
          /\ q < last.proc
          /\ calls[q].pc = "done"
          /\ calls[q].http = 502
          /\ calls[q].body.caseId = last.body.caseId
          /\ KeyOf(calls[q]) = KeyOf(calls[last.proc])
    /\ SlotIs(DirectorOf(calls[last.proc]), last.body.documentType, "done")
    /\ DataOf(DirectorOf(calls[last.proc]), last.body.documentType).present

(* C27: when the case of an extract call was deleted while its inference   *)
(* call was in flight, the terminal step of the call, after an answer or   *)
(* after a failure, stores nothing: the identifier is still absent and     *)
(* every other case is as it was; after an answer the call ends with the   *)
(* not-found outcome.                                                      *)
C27_DeletedCaseStaysDeleted ==
    [][ ( /\ last'.op \in {"extract:ok", "extract:failed"}
          /\ ~Has(cases, last'.body.caseId) )
          => /\ ~Has(cases', last'.body.caseId)
             /\ cases' = cases
             /\ last'.op = "extract:ok"
                   => last'.http = 404 /\ last'.error = "Case not found"
             /\ last'.op = "extract:failed" => last'.http = 502 ]_vars

\* the inference call of a call returned after the case was deleted
C27_Witness ==
    /\ last.op \in {"extract:ok", "extract:failed"}
    /\ calls[last.proc].pc = "done"
    /\ last.body.caseId = caseId
    /\ ~Has(cases, caseId)
    /\ DOMAIN cases = SeedIds \ {caseId}

(* C28: in every reachable state a pan or aadhaar slot in status error     *)
(* belongs to a director whose extracted data of that type is absent,      *)
(* also after two overlapping extract calls on one slot finished in        *)
(* either order.                                                           *)
C28_ErrorSlotHasNoData ==
    \A id \in DOMAIN cases, d \in DirectorIndex, type \in CoreType :
        SlotIs(cases[id].directors[d], type, "error")
            => ~DataOf(cases[id].directors[d], type).present

\* an extract call for the slot is between its mark-processing write and its
\* terminal step
InFlight(id, d, type) ==
    \E p \in Procs :
        /\ calls[p].pc = "await"
        /\ calls[p].route = "extract"
        /\ calls[p].body.caseId = id
        /\ KeyOf(calls[p]) = <<d, type>>

(* C29: in every state reachable by attach, detach, approval, manual       *)
(* fields save and extract operations in any order, a slot is in status    *)
(* processing only while an extract call for its case, director and type   *)
(* is between its mark-processing write and its terminal step; so no slot  *)
(* is processing once every inference call has returned.                   *)
C29_ProcessingOnlyInFlight ==
    \A id \in DOMAIN cases, d \in DirectorIndex, type \in CoreType :
        SlotIs(cases[id].directors[d], type, "processing") => InFlight(id, d, type)

(* C30: a successful export changes of the stored case only the status,    *)
(* which it sets to complete: the directors, slots and extracted data an   *)
(* extract call wrote while the spreadsheet call was in flight are still   *)
(* there after the export, and every other case is as it was.              *)
C30_ExportChangesStatusOnly ==
    [][ last'.op = "export:ok"
          => LET id == last'.body.caseId
             IN  /\ DOMAIN cases' = DOMAIN cases
                 /\ \A other \in DOMAIN cases \ {id} : cases'[other] = cases[other]
                 /\ Has(cases, id) =>
                       /\ cases'[id] = [cases[id] EXCEPT !.status = "complete"]
                       /\ cases'[id].directors = cases[id].directors ]_vars

\* the export completed a case in which an extract call, requested after
\* the export and answered before the spreadsheet call, had stored its data
C30_Witness ==
    /\ last.op = "export:ok"
    /\ Has(cases, last.body.caseId)
    /\ cases[last.body.caseId].status = "complete"
    /\ \E q \in Procs :
          /\ q > last.proc
          /\ calls[q].route = "extract"
          /\ calls[q].pc = "done"
          /\ calls[q].http = 200
          /\ calls[q].body.caseId = last.body.caseId
          /\ SlotIs(DirectorOf(calls[q]), calls[q].body.documentType, "done")
          /\ DataOf(DirectorOf(calls[q]), calls[q].body.documentType) = OwnData(calls[q])

====
